---- MODULE Spec2Model ----
(***************************************************************************)
(* A model of the scalpel edge node: the RocksDB image cache               *)
(* (src/cache/rocks.rs, src/cache/mod.rs) and the HTTP server lifecycle    *)
(* (src/http/mod.rs).                                                      *)
(*                                                                         *)
(* Byte strings are sequences of small naturals.  Option<T> is a sequence  *)
(* of length at most one (None is the empty sequence, Some(x) is <<x>>),   *)
(* Result<T, E> is a record with an "ok" flag.                             *)
(***************************************************************************)
EXTENDS Integers, Sequences, FiniteSets, TLC

\* ------------------------------------------------------------------ bounds

\* how many of the image keys of AllKeys the callers use
NumKeys == 3
\* payload bytes range over 0..MaxByte
MaxByte == 0
\* payloads hold at most MaxPayloadLen bytes
MaxPayloadLen == 1
\* the clock (milliseconds since the epoch) reads 0..MaxNow
MaxNow == 1
\* the live files never hold more than MaxLive bytes (the disk is finite)
MaxLive == 82
\* a wrapped running size is followed down to 2^64 - MaxDeficit
MaxDeficit == 45

\* certificates are numbered 1..MaxCert
MaxCert == 2
\* a certificate chain holds at most MaxChain PEM blocks
MaxChain == 1
\* servers that exist at once (the one held and one not yet gone)
MaxServers == 2
\* keep-alive connections open on one server
MaxConns == 1

\* requests handled at once
MaxReqs == 2
\* the high 64 bits of a stored put_time range over 0..MaxHigh
MaxHigh == 1
\* threads that run pop at once
MaxPoppers == 2
\* saves to one derived key while pops run
MaxPuts == 1

\* ------------------------------------------------------- option and result

None == <<>>
Some(x) == <<x>>
IsSome(o) == Len(o) = 1
Unwrap(o) == o[1]

Ok(x) == [ok |-> TRUE, val |-> x]
Err(e) == [ok |-> FALSE, err |-> e]
\* the task ended in a panic instead of returning
Panic == [ok |-> FALSE, err |-> "panic"]

RECURSIVE SumOver(_, _)
\* the sum of f[x] over the finite set S, a subset of DOMAIN f
SumOver(f, S) ==
  IF S = {} THEN 0
  ELSE LET x == CHOOSE y \in S : TRUE IN f[x] + SumOver(f, S \ {x})

\* ----------------------------------------------------------------- digests

\* Md5 stand-in: the consumed byte stream, numbered injectively and then
\* scrambled by a bijection of 0..65535, so that distinct streams of the
\* model have distinct digests and digest order is unrelated to stream order.
RECURSIVE StreamCode(_)
StreamCode(s) ==
  IF s = <<>> THEN 1 ELSE StreamCode(SubSeq(s, 1, Len(s) - 1)) * 4 + s[Len(s)]

Md5(s) == (StreamCode(s) * 40503) % 65536

\* md5::compute(bytes) of a payload
make_checksum(bytes) == Md5(bytes)

\* ----------------------------------------------------------------- the keys

\* ImageKey values the callers pass; the chapter and image strings are byte
\* sequences ("ab" is <<1, 2>>).
AllKeys ==
  << [chapter |-> <<1, 2>>, image |-> <<3>>,    data_saver |-> FALSE],
     [chapter |-> <<1>>,    image |-> <<2, 3>>, data_saver |-> FALSE],
     [chapter |-> <<1, 2>>, image |-> <<3>>,    data_saver |-> TRUE],
     [chapter |-> <<2>>,    image |-> <<3>>,    data_saver |-> FALSE],
     [chapter |-> <<1>>,    image |-> <<3>>,    data_saver |-> TRUE],
     [chapter |-> <<3>>,    image |-> <<1>>,    data_saver |-> FALSE] >>

Keys == {AllKeys[i] : i \in 1..(IF NumKeys < Len(AllKeys) THEN NumKeys ELSE Len(AllKeys))}

\* ctx.consume([saver as u8]); ctx.consume(chap_hash); ctx.consume(image)
get_cache_key(chap_hash, image, saver) ==
  Md5(<<IF saver THEN 1 ELSE 0>> \o chap_hash \o image)

DKey(k) == get_cache_key(k.chapter, k.image, k.data_saver)

DKeys == {DKey(k) : k \in Keys}

\* ------------------------------------------------------------ the encoding

\* a number below 2^24 as w little-endian bytes
ToLE(x, w) == [i \in 1..w |-> IF i <= 3 THEN (x \div (256 ^ (i - 1))) % 256 ELSE 0]

\* the number of little-endian bytes, -1 when it does not fit in 2^24
FromLE(bs) ==
  IF \E i \in 4..Len(bs) : bs[i] # 0 THEN -1
  ELSE SumOver([i \in 1..3 |-> IF i <= Len(bs) THEN bs[i] * (256 ^ (i - 1)) ELSE 0], 1..3)

\* the 16 bytes of a digest, most significant first
DigestBytes(d) == [i \in 1..16 |-> IF i = 15 THEN d \div 256 ELSE IF i = 16 THEN d % 256 ELSE 0]
DigestOf(bs) == bs[15] * 256 + bs[16]

\* put_time: u128, checksum: [u8; 16], bytes: &[u8] (a u64 length, then the bytes)
HeaderLen == 16 + 16 + 8

\* bincode::serialize(&ImageEntry)
Serialize(entry) ==
  ToLE(entry.put_time.lo, 8) \o ToLE(entry.put_time.hi, 8)
    \o DigestBytes(entry.checksum)
    \o ToLE(Len(entry.bytes), 8) \o entry.bytes

\* bincode::deserialize::<ImageEntry>(&serialized_bytes)
Deserialize(v) ==
  IF Len(v) < HeaderLen THEN Err("Bincode")
  ELSE LET n == FromLE(SubSeq(v, 33, 40))
       IN IF n < 0 \/ Len(v) < HeaderLen + n THEN Err("Bincode")
          ELSE Ok([put_time |-> [lo |-> FromLE(SubSeq(v, 1, 8)),
                                 hi |-> FromLE(SubSeq(v, 9, 16))],
                   checksum |-> DigestOf(SubSeq(v, 17, 32)),
                   bytes    |-> SubSeq(v, HeaderLen + 1, HeaderLen + n)])

\* the put_time field of stored bytes
PutTimeOf(value) == Deserialize(value).val.put_time

\* impl From<&[u8]> for ImageEntry: the clock read as u128 milliseconds
ImageEntryFrom(data, now) ==
  [put_time |-> [lo |-> now, hi |-> 0],
   checksum |-> make_checksum(data),
   bytes    |-> data]

\* ------------------------------------------------------------- input sets

Bytes == 0..MaxByte

Payloads == UNION {[1..n -> Bytes] : n \in 0..MaxPayloadLen}

Times == 0..MaxNow

\* the mime types callers name; RocksCache::save has no parameter for it
Mimes == {"image/png", "image/jpeg"}

SaveFaults == {"none", "bincode", "rocks"}
LoadFaults == {"none", "rocks"}

\* ------------------------------------------------------------------ state

VARIABLES
  images,     \* the "images" column family: derived key -> Option<value bytes>
  cfDefault,  \* the default column family: derived key -> Option<value bytes>
  memKeys,    \* keys of "images" whose value is still in the memtable
  defTomb,    \* keys whose delete marker is in the default family's memtable
  liveSize,   \* the sum of the sizes of the live files
  lastSave,   \* the last successful save's arguments, while nothing else has
              \* written that entry since
  ret,        \* the last call and what it returned
  pc,         \* where the running shrink is
  sz,         \* shrink's running size; below 0 it stands for 2^64 + sz
  minArg,     \* shrink's argument
  item,       \* the entry pop's iterator returned
  pops,       \* pops of the running shrink that returned a byte count
  n0,         \* entries in "images" when the running shrink started
  rep0,       \* the live file size when the running shrink started
  sz0,        \* what report() returned to the running shrink
  popped      \* the sum of the byte counts pop returned to the running shrink

cacheVars ==
  <<images, cfDefault, memKeys, defTomb, liveSize, lastSave, ret,
    pc, sz, minArg, item, pops, n0, rep0, sz0, popped>>

VARIABLES
  lc,         \* whether an HttpServerLifecycle has been constructed
  actix,      \* HttpServerLifecycle.actix: the index in servers of the handle held
  servers,    \* every server spawned so far, in order of spawning
  foreign,    \* another process holds the node's address
  hpc,        \* where the running lifecycle call is
  hcall,      \* the running lifecycle call and its argument
  hret        \* the last lifecycle call and what it returned

httpVars == <<lc, actix, servers, foreign, hpc, hcall, hret>>

VARIABLES
  skip_tokens,      \* gs.config.skip_tokens, None until the configuration is read
  verify_tokens,    \* what gs.backend.get_verify_tokens() returns
  request_counter,  \* gs.request_counter
  rq                \* the requests in md_service: position, path arguments,
                    \* response, and what each has touched so far

reqVars == <<skip_tokens, verify_tokens, request_counter, rq>>

VARIABLES
  popping,    \* the threads inside pop: position and the entry the iterator gave
  puts,       \* derived key -> saves made to it
  credited    \* derived key -> pops that returned its bytes as removed

concVars == <<popping, puts, credited>>

vars == <<cacheVars, httpVars, reqVars, concVars>>

otherThanCache == <<httpVars, reqVars, concVars>>
otherThanHttp == <<cacheVars, reqVars, concVars>>
otherThanReq == <<cacheVars, httpVars, concVars>>

Poppers == 1..MaxPoppers

Reqs == 1..MaxReqs

\* a slot of the server that handles no request
NoRequest ==
  [pc |-> "free", archive_type |-> "", token |-> None, verdict |-> "none",
   resp |-> "none", seen |-> {}]

shrinkLocals == <<sz, minArg, item, pops, n0, rep0, sz0, popped>>
shrinkVars == <<pc, shrinkLocals>>
engineVars == <<cfDefault, memKeys, defTomb, liveSize>>

Present(db) == {k \in DOMAIN db : IsSome(db[k])}

\* no server has been spawned
EmptyServers == [i \in {} |-> 0]

Init ==
  /\ images = [k \in DKeys |-> None]
  /\ cfDefault = [k \in DKeys |-> None]
  /\ memKeys = {}
  /\ defTomb = {}
  /\ liveSize = 0
  /\ lastSave = None
  /\ ret = [op |-> "init"]
  /\ pc = "idle"
  /\ sz = 0
  /\ minArg = 0
  /\ item = None
  /\ pops = 0
  /\ n0 = 0
  /\ rep0 = 0
  /\ sz0 = 0
  /\ popped = 0
  /\ lc = FALSE
  /\ actix = 0
  /\ servers = EmptyServers
  /\ foreign = FALSE
  /\ hpc = "idle"
  /\ hcall = [op |-> "none"]
  /\ hret = [op |-> "none"]
  /\ skip_tokens = None
  /\ verify_tokens = TRUE
  /\ request_counter = 0
  /\ rq = [r \in Reqs |-> NoRequest]
  /\ popping = [p \in Poppers |-> [pc |-> "idle", item |-> None]]
  /\ puts = [k \in DKeys |-> 0]
  /\ credited = [k \in DKeys |-> 0]

\* ------------------------------------------------------------ save and load

\* RocksCache::save_to_db: the result and the column family afterwards
save_to_db(db, chap_hash, image, saver, data, now, fault) ==
  LET key == get_cache_key(chap_hash, image, saver)
      entry == ImageEntryFrom(data, now)
  IN IF fault = "bincode" THEN [result |-> Err("Bincode"), db |-> db]
     ELSE IF fault = "rocks" THEN [result |-> Err("Rocks"), db |-> db]
     ELSE [result |-> Ok(TRUE), db |-> [db EXCEPT ![key] = Some(Serialize(entry))]]

\* RocksCache::load_from_db
load_from_db(db, chap_hash, image, saver, fault) ==
  LET key == get_cache_key(chap_hash, image, saver)
  IN IF fault = "rocks" THEN Err("Rocks")
     ELSE IF IsSome(db[key])
       THEN LET e == Deserialize(Unwrap(db[key]))
            IN IF ~e.ok THEN Err("Bincode")
               ELSE Ok(Some([bytes |-> e.val.bytes, save_date |-> e.val.put_time.lo]))
       ELSE Ok(None)

\* a load that answers a failure with a default entry instead of nothing
load_default_on_error(db, chap_hash, image, saver, fault) ==
  LET r == load_from_db(db, chap_hash, image, saver, fault)
  IN IF r.ok THEN r.val ELSE Some([bytes |-> <<>>, save_date |-> 0])

\* ImageCache::load for RocksCache: .ok().and_then(|x| x)
load(db, chap_hash, image, saver, fault) ==
  LET r == load_from_db(db, chap_hash, image, saver, fault)
  IN IF r.ok THEN r.val ELSE None

\* a save that reports success whatever save_to_db returned
save_always_true(db, chap_hash, image, saver, data, now, fault) ==
  [val |-> TRUE, db |-> save_to_db(db, chap_hash, image, saver, data, now, fault).db]

\* ImageCache::save for RocksCache: .is_ok()
save(db, chap_hash, image, saver, data, now, fault) ==
  LET r == save_to_db(db, chap_hash, image, saver, data, now, fault)
  IN [val |-> r.result.ok, db |-> r.db]

\* a call of save: what it does to the store and to the engine
SaveCall(k, data, now, fault) ==
  /\ UNCHANGED otherThanCache
  /\ pc = "idle"
  /\ LET r == save(images, k.chapter, k.image, k.data_saver, data, now, fault)
     IN /\ images' = r.db
        /\ memKeys' = IF r.db # images \/ r.val THEN memKeys \cup {DKey(k)} ELSE memKeys
  /\ UNCHANGED <<cfDefault, defTomb, liveSize, shrinkVars>>

\* a save whose arguments and result are recorded
Save(k, mime, data, now, fault) ==
  /\ SaveCall(k, data, now, fault)
  /\ LET r == save(images, k.chapter, k.image, k.data_saver, data, now, fault)
     IN /\ lastSave' =
             IF r.val
               THEN Some([key |-> k, mime |-> mime, data |-> data,
                          \* the call before this one was a successful save of k
                          over |-> ret.op = "save" /\ ret.key = k /\ ret.val])
               ELSE lastSave
        /\ ret' = [op |-> "save", key |-> k, val |-> r.val]

\* a save of which nothing is recorded
Put(k, data, now) ==
  /\ SaveCall(k, data, now, "none")
  /\ lastSave' = None
  /\ ret' = [op |-> "put"]

Load(k, fault) ==
  /\ UNCHANGED otherThanCache
  /\ pc = "idle"
  /\ ret' = [op |-> "load", key |-> k, fault |-> fault,
             val |-> load(images, k.chapter, k.image, k.data_saver, fault)]
  /\ UNCHANGED <<images, lastSave, engineVars, shrinkVars>>

\* the stored bytes of one entry are cut short (a torn or damaged record)
Corrupt(dk, n) ==
  /\ UNCHANGED otherThanCache
  /\ pc = "idle"
  /\ IsSome(images[dk])
  /\ n < Len(Unwrap(images[dk]))
  /\ images' = [images EXCEPT ![dk] = Some(SubSeq(Unwrap(images[dk]), 1, n))]
  /\ lastSave' = IF IsSome(lastSave) /\ DKey(Unwrap(lastSave).key) = dk THEN None ELSE lastSave
  /\ ret' = [op |-> "corrupt"]
  /\ UNCHANGED <<engineVars, shrinkVars>>

CorruptLens == {0, HeaderLen}

NextStore ==
  \/ \E k \in Keys, mime \in Mimes, data \in Payloads, now \in Times, fault \in SaveFaults :
       Save(k, mime, data, now, fault)
  \/ \E k \in Keys, fault \in LoadFaults : Load(k, fault)
  \/ \E dk \in DKeys, n \in CorruptLens : Corrupt(dk, n)

SpecStore == Init /\ [][NextStore]_vars

\* ----------------------------------------------------- claims on the store

\* what a loaded value carries of the ImageEntry of src/cache/mod.rs
EntryMime(e) == IF "mime_type" \in DOMAIN e THEN Some(e.mime_type) ELSE None
EntryChecksum(e) == IF "checksum" \in DOMAIN e THEN Some(e.checksum) ELSE None

LoadedAfterSave ==
  /\ ret.op = "load"
  /\ ret.fault = "none"
  /\ IsSome(lastSave)
  /\ Unwrap(lastSave).key = ret.key

\* C1: after save(K, "image/png", B) returned true and nothing else touched
\* K, load(K) returns an entry with payload B, mime type "image/png" and
\* checksum digest(B).
C1_SaveThenLoad ==
  (LoadedAfterSave /\ Unwrap(lastSave).mime = "image/png") =>
    /\ IsSome(ret.val)
    /\ Unwrap(ret.val).bytes = Unwrap(lastSave).data
    /\ EntryMime(Unwrap(ret.val)) = Some("image/png")
    /\ EntryChecksum(Unwrap(ret.val)) = Some(make_checksum(Unwrap(lastSave).data))

\* C2: after save(K, m1, B1) then save(K, m2, B2), both successful, load(K)
\* returns exactly (m2, B2) and the store holds one entry for K.
C2_LastWriteWins ==
  (LoadedAfterSave /\ Unwrap(lastSave).over) =>
    /\ IsSome(ret.val)
    /\ Unwrap(ret.val).bytes = Unwrap(lastSave).data
    /\ EntryMime(Unwrap(ret.val)) = Some(Unwrap(lastSave).mime)
    /\ IsSome(images[DKey(ret.key)])

\* C3: a save(K1, ...) never changes what load(K2) returns when K1 and K2
\* differ in at least one of chapter, image, dataSaver.
C3_DisjointKeys ==
  [][\A k1 \in Keys, k2 \in Keys :
       (k1 # k2 /\ ret'.op = "save" /\ ret'.key = k1) =>
         load(images', k2.chapter, k2.image, k2.data_saver, "none")
           = load(images, k2.chapter, k2.image, k2.data_saver, "none")]_vars

Undecodable(db, k) == IsSome(db[DKey(k)]) /\ ~Deserialize(Unwrap(db[DKey(k)])).ok

\* C4: load returns empty when the key is absent, when the backend read fails
\* and when the stored bytes cannot be decoded; it returns an Option in every
\* case and never changes the stored entries.
C4_LoadAbsorbsFailures ==
  /\ [](ret.op = "load" =>
          /\ (\/ ~IsSome(images[DKey(ret.key)])
              \/ ret.fault # "none"
              \/ Undecodable(images, ret.key)) => ret.val = None
          /\ Len(ret.val) <= 1)
  /\ [][ret'.op = "load" => images' = images]_vars

C4_Witness ==
  /\ ret.op = "load"
  /\ ret.fault = "none"
  /\ Undecodable(images, ret.key)
  /\ ret.val = None

\* C5: save returns true exactly when the entry was persisted; a failed save
\* returns false and leaves the store unchanged, so a later load of the key
\* is a miss or returns the entry stored before.
C5_SaveReportsPersistence ==
  [][ret'.op = "save" =>
       LET k == ret'.key
       IN IF ret'.val
            THEN /\ IsSome(lastSave') /\ Unwrap(lastSave').key = k
                 /\ LET got == load(images', k.chapter, k.image, k.data_saver, "none")
                    IN IsSome(got) /\ Unwrap(got).bytes = Unwrap(lastSave').data
            ELSE images' = images]_vars

C5_Witness ==
  /\ ret.op = "save"
  /\ ~ret.val
  /\ IsSome(images[DKey(ret.key)])
  /\ ~Undecodable(images, ret.key)

\* put_time: u128, as its low and high 64 bits
PutTimes == [lo : Times, hi : 0..MaxHigh]

\* the database at cfg.path holds an entry of the format under k's key,
\* with whatever put_time its writer gave it
StoredEntry(k, put_time, data) ==
  /\ UNCHANGED otherThanCache
  /\ pc = "idle"
  /\ images' = [images EXCEPT ![DKey(k)] =
                  Some(Serialize([put_time |-> put_time,
                                  checksum |-> make_checksum(data),
                                  bytes    |-> data]))]
  /\ memKeys' = memKeys \cup {DKey(k)}
  /\ lastSave' = None
  /\ ret' = [op |-> "stored"]
  /\ UNCHANGED <<cfDefault, defTomb, liveSize, shrinkVars>>

NextTime ==
  \/ \E k \in Keys, put_time \in PutTimes, data \in Payloads : StoredEntry(k, put_time, data)
  \/ \E k \in Keys, data \in Payloads, now \in Times : Put(k, data, now)
  \/ \E k \in Keys, fault \in LoadFaults : Load(k, fault)

SpecTime == Init /\ [][NextTime]_vars

\* C20: for every put_time of the stored u128 field, the timestamp load
\* returns is exactly put_time milliseconds after the epoch: the conversion
\* of the u128 to u64 loses nothing.
C20_TimestampExact ==
  (ret.op = "load" /\ IsSome(ret.val)) =>
    [lo |-> Unwrap(ret.val).save_date, hi |-> 0]
      = PutTimeOf(Unwrap(images[DKey(ret.key)]))

\* ------------------------------------------------------------- the engine

\* a delete marker holds the 16-byte key
TombLen == 16

ValueLens(db) == [k \in Present(db) |-> Len(Unwrap(db[k]))]

\* the memtable of "images" is written out as a new live file
FlushImages ==
  /\ UNCHANGED otherThanCache
  /\ pc = "idle"
  /\ memKeys # {}
  /\ liveSize + SumOver(ValueLens(images), memKeys) <= MaxLive
  /\ liveSize' = liveSize + SumOver(ValueLens(images), memKeys)
  /\ memKeys' = {}
  /\ ret' = [op |-> "engine"]
  /\ UNCHANGED <<images, cfDefault, defTomb, lastSave, shrinkVars>>

\* compaction rewrites the live files without overwritten values and
\* without delete markers that cover nothing
Compact ==
  /\ UNCHANGED otherThanCache
  /\ pc = "idle"
  /\ liveSize # SumOver(ValueLens(images), Present(images) \ memKeys)
  /\ liveSize' = SumOver(ValueLens(images), Present(images) \ memKeys)
  /\ ret' = [op |-> "engine"]
  /\ UNCHANGED <<images, cfDefault, memKeys, defTomb, lastSave, shrinkVars>>

\* db.flush(): the memtable of the default column family is written out
flush(live, tomb) == live + TombLen * Cardinality(tomb)

\* a report that answers a failed measurement with the largest size
report_max_on_error(live, fault) == IF fault THEN MaxLive ELSE live

\* RocksCache::size_on_disk
size_on_disk(live, fault) == IF fault THEN Err("Rocks") ELSE Ok(live)

\* ImageCache::report for RocksCache: .unwrap_or(0)
report(live, fault) ==
  LET r == size_on_disk(live, fault) IN IF r.ok THEN r.val ELSE 0

Report(fault) ==
  /\ UNCHANGED otherThanCache
  /\ pc = "idle"
  /\ ret' = [op |-> "report", val |-> report(liveSize, fault), fault |-> fault]
  /\ UNCHANGED <<images, lastSave, engineVars, shrinkVars>>

\* ------------------------------------------------------------ pop, shrink

\* an iterator that yields the entry put first
IterOldest(db) ==
  IF Present(db) = {} THEN None
  ELSE LET older(x, y) ==
             \/ PutTimeOf(Unwrap(db[x])).lo < PutTimeOf(Unwrap(db[y])).lo
             \/ (PutTimeOf(Unwrap(db[x])).lo = PutTimeOf(Unwrap(db[y])).lo /\ x <= y)
           k == CHOOSE x \in Present(db) : \A y \in Present(db) : older(x, y)
       IN Some([key |-> k, value |-> Unwrap(db[k])])

\* iterator_cf(image_cf, IteratorMode::Start).next()
IterFirst(db) ==
  IF Present(db) = {} THEN None
  ELSE LET k == CHOOSE x \in Present(db) : \A y \in Present(db) : x <= y
       IN Some([key |-> k, value |-> Unwrap(db[k])])

\* db.delete(key): a delete in the default column family
delete(cfs, key) == [cfs EXCEPT !.default[key] = None]

\* RocksCache::pop: the result, the column families afterwards and the entry
\* the iterator returned
pop(cfs, fault) ==
  LET first == IterFirst(cfs.images)
  IN IF first = None
       THEN [result |-> Ok(None), cfs |-> cfs, item |-> first]
     ELSE IF fault
       THEN [result |-> Err("Rocks"), cfs |-> cfs, item |-> first]
     ELSE [result |-> Ok(Some(Len(Unwrap(first).value))),
           cfs |-> delete(cfs, Unwrap(first).key),
           item |-> first]

\* a call of pop
Pop(fault) ==
  /\ UNCHANGED otherThanCache
  /\ pc = "idle"
  /\ LET r == pop([images |-> images, default |-> cfDefault], fault)
     IN /\ images' = r.cfs.images
        /\ cfDefault' = r.cfs.default
        /\ defTomb' = IF r.result.ok /\ IsSome(r.item) /\ r.cfs.images = images
                        THEN defTomb \cup {Unwrap(r.item).key} ELSE defTomb
        /\ ret' = [op |-> "pop", val |-> r.result, item |-> r.item]
  /\ lastSave' = None
  /\ UNCHANGED <<memKeys, liveSize, shrinkVars>>

NextPop ==
  \/ \E k \in Keys, data \in Payloads, now \in Times : Put(k, data, now)
  \/ \E fault \in BOOLEAN : Pop(fault)

SpecPop == Init /\ [][NextPop]_vars

\* ------------------------------------------------- pop on several threads

\* save_to_db on one thread while others are inside pop
ConcSave(k, data, now) ==
  /\ UNCHANGED <<httpVars, reqVars>>
  /\ pc = "idle"
  /\ puts[DKey(k)] < MaxPuts
  /\ LET r == save(images, k.chapter, k.image, k.data_saver, data, now, "none")
     IN images' = r.db
  /\ memKeys' = memKeys \cup {DKey(k)}
  /\ puts' = [puts EXCEPT ![DKey(k)] = @ + 1]
  /\ lastSave' = None
  /\ ret' = [op |-> "put"]
  /\ UNCHANGED <<cfDefault, defTomb, liveSize, shrinkVars, popping, credited>>

\* pop: the iterator is opened and its first entry read
ConcPopRead(p) ==
  /\ UNCHANGED <<httpVars, reqVars>>
  /\ pc = "idle"
  /\ popping[p].pc = "idle"
  /\ popping' = [popping EXCEPT ![p] = [pc |-> "read", item |-> IterFirst(images)]]
  /\ UNCHANGED <<cacheVars, puts, credited>>

\* pop: the delete by key, and the byte count returned
ConcPopDelete(p) ==
  /\ UNCHANGED <<httpVars, reqVars>>
  /\ pc = "idle"
  /\ popping[p].pc = "read"
  /\ popping' = [popping EXCEPT ![p] = [pc |-> "idle", item |-> None]]
  /\ IF popping[p].item = None
       THEN UNCHANGED <<images, cfDefault, defTomb, credited>>
       ELSE LET key == Unwrap(popping[p].item).key
                cfs == delete([images |-> images, default |-> cfDefault], key)
            IN /\ credited[key] <= MaxPuts
               /\ images' = cfs.images
               /\ cfDefault' = cfs.default
               /\ defTomb' = IF cfs.images = images THEN defTomb \cup {key} ELSE defTomb
               /\ credited' = [credited EXCEPT ![key] = @ + 1]
  /\ ret' = [op |-> "pop", val |-> Ok(IF popping[p].item = None THEN None
                                      ELSE Some(Len(Unwrap(popping[p].item).value))),
             item |-> popping[p].item]
  /\ lastSave' = None
  /\ UNCHANGED <<memKeys, liveSize, shrinkVars, puts>>

NextConc ==
  \/ \E k \in Keys, data \in Payloads, now \in Times : ConcSave(k, data, now)
  \/ \E p \in Poppers : ConcPopRead(p)
  \/ \E p \in Poppers : ConcPopDelete(p)

SpecConc == Init /\ [][NextConc]_vars

\* C22: pop's read step and its delete step act on the same entry under any
\* interleaving: an entry that leaves the keyspace in a pop is the one that
\* pop read, with the value it read, and no entry's bytes are returned as
\* removed more than once across the threads that pop.
C22_PopAtomic ==
  [][\A p \in Poppers :
       (popping[p].pc = "read" /\ popping'[p].pc = "idle") =>
         /\ \A k \in DKeys :
              images'[k] # images[k] =>
                /\ IsSome(popping[p].item)
                /\ k = Unwrap(popping[p].item).key
                /\ images[k] = Some(Unwrap(popping[p].item).value)
         /\ \A k \in DKeys : credited'[k] <= puts'[k]]_vars

\* --------------------------------------------------------- claims on pop

C16_PopDeletesFirst ==
  [][(ret'.op = "pop" /\ ret'.val.ok /\ IsSome(ret'.val.val)) =>
       LET first == Unwrap(IterFirst(images))
       IN /\ images' = [images EXCEPT ![first.key] = None]
          /\ \A k \in Keys :
               DKey(k) = first.key =>
                 load(images', k.chapter, k.image, k.data_saver, "none") = None
          /\ IterFirst(images') # IterFirst(images)
          /\ Unwrap(ret'.val.val) = Len(Deserialize(first.value).val.bytes)]_vars

\* a loop that runs its body at most once
ShrinkContinueOnce(s, m) == (s < 0 \/ s > m) /\ pops = 0

\* while sz > min, with sz a u64
ShrinkContinue(s, m) == s < 0 \/ s > m

MaxMinUnits == 2
Mins == {m * HeaderLen : m \in 0..MaxMinUnits}

\* shrink: let mut sz = self.report()
ShrinkStart(min, fault) ==
  /\ UNCHANGED otherThanCache
  /\ pc = "idle"
  /\ liveSize <= MaxLive
  /\ sz' = report(liveSize, fault)
  /\ minArg' = min
  /\ item' = None
  /\ pops' = 0
  /\ n0' = Cardinality(Present(images))
  /\ rep0' = liveSize
  /\ sz0' = report(liveSize, fault)
  /\ popped' = 0
  /\ pc' = "loop"
  /\ ret' = [op |-> "shrinking", fault |-> fault]
  /\ UNCHANGED <<images, lastSave, engineVars>>

\* the loop test, and pop's iterator read when the loop goes on
ShrinkLoop ==
  /\ UNCHANGED otherThanCache
  /\ pc = "loop"
  /\ IF ShrinkContinue(sz, minArg)
       THEN /\ item' = IterFirst(images)
            /\ pc' = "pop_delete"
       ELSE /\ pc' = "flush"
            /\ UNCHANGED item
  /\ UNCHANGED <<images, lastSave, ret, engineVars, sz, minArg, pops, n0, rep0,
                 sz0, popped>>

\* what a finished shrink leaves: its locals are gone, its result is recorded
\* with the number of pops it made and the state it started from
ShrinkReturn(val, flushed) ==
  /\ pc' = "idle"
  /\ ret' = [op |-> "shrink", min |-> minArg, val |-> val,
             pops |-> pops, n0 |-> n0, rep0 |-> rep0,
             sz0 |-> sz0, popped |-> popped, flushed |-> flushed,
             \* whether the size measurement at the start failed
             fault |-> ret.fault]
  /\ sz' = 0
  /\ minArg' = 0
  /\ item' = None
  /\ pops' = 0
  /\ n0' = 0
  /\ rep0' = 0
  /\ sz0' = 0
  /\ popped' = 0

\* a running size from which the entry is subtracted twice
sub_assign_twice(s, removed_bytes) == s - 2 * removed_bytes

\* sz -= removed_bytes as u64
sub_assign(s, removed_bytes) == s - removed_bytes

\* the rest of pop and the match on its result; overflowChecks is the build's
\* choice between a panic and a wrap when sz - removed_bytes is below 0
ShrinkPopDelete(fault, overflowChecks) ==
  /\ UNCHANGED otherThanCache
  /\ pc = "pop_delete"
  /\ IF item = None
       THEN \* _ => break
            /\ pc' = "flush"
            /\ UNCHANGED <<images, cfDefault, defTomb, ret, shrinkLocals>>
       ELSE IF fault
         THEN \* Err(e) => return Err(())
              /\ ShrinkReturn(Err(<<>>), FALSE)
              /\ UNCHANGED <<images, cfDefault, defTomb>>
         ELSE LET cfs == delete([images |-> images, default |-> cfDefault],
                                Unwrap(item).key)
                  removed_bytes == Len(Unwrap(item).value)
              IN /\ images' = cfs.images
                 /\ cfDefault' = cfs.default
                 /\ defTomb' = IF cfs.images = images
                                 THEN defTomb \cup {Unwrap(item).key} ELSE defTomb
                 /\ IF sz >= 0 /\ sub_assign(sz, removed_bytes) < 0 /\ overflowChecks
                      THEN \* attempt to subtract with overflow
                           ShrinkReturn(Panic, FALSE)
                      ELSE /\ sub_assign(sz, removed_bytes) >= -MaxDeficit
                           /\ sz' = sub_assign(sz, removed_bytes)
                           /\ pops' = pops + 1
                           /\ popped' = popped + removed_bytes
                           /\ pc' = "loop"
                           /\ UNCHANGED <<ret, minArg, item, n0, rep0, sz0>>
  /\ UNCHANGED <<memKeys, liveSize, lastSave>>

\* a shrink that ignores what the flush returned
shrink_result_unchecked(s, flushed) == Ok(s)

\* if let Err(e) = self.db.flush() { return Err(()) }, then Ok(sz)
shrink_result(s, flushed) == IF flushed THEN Ok(s) ELSE Err(<<>>)

\* self.db.flush(), then Ok(sz)
ShrinkFlush(fault) ==
  /\ UNCHANGED otherThanCache
  /\ pc = "flush"
  /\ IF fault
       THEN /\ ShrinkReturn(shrink_result(sz, FALSE), FALSE)
            /\ UNCHANGED <<liveSize, defTomb>>
       ELSE /\ liveSize' = flush(liveSize, defTomb)
            /\ defTomb' = {}
            /\ ShrinkReturn(shrink_result(sz, TRUE), TRUE)
  /\ UNCHANGED <<images, cfDefault, memKeys, lastSave>>

NextShrink ==
  \/ \E k \in Keys, data \in Payloads, now \in Times : Put(k, data, now)
  \/ FlushImages
  \/ Compact
  \/ \E fault \in BOOLEAN : Report(fault)
  \/ \E min \in Mins, fault \in BOOLEAN : ShrinkStart(min, fault)
  \/ ShrinkLoop
  \/ \E fault \in BOOLEAN, overflowChecks \in BOOLEAN : ShrinkPopDelete(fault, overflowChecks)
  \/ \E fault \in BOOLEAN : ShrinkFlush(fault)

SpecShrink == Init /\ [][NextShrink]_vars

\* RocksCache::new opens the database cfg.path holds.  An earlier run can
\* leave live files of the default column family (delete markers its shrink
\* flushed) beside an empty "images" family (entries that were only in the
\* memtable and the unsynced log when the machine went down).
OpenExisting(markers) ==
  /\ UNCHANGED otherThanCache
  /\ pc = "idle"
  /\ ret.op = "init"
  /\ liveSize' = TombLen * markers
  /\ ret' = [op |-> "open"]
  /\ UNCHANGED <<images, cfDefault, memKeys, defTomb, lastSave, shrinkVars>>

NextShrinkOpen ==
  \/ \E markers \in 1..NumKeys : OpenExisting(markers)
  \/ NextShrink

SpecShrinkOpen == Init /\ [][NextShrinkOpen]_vars

\* ---------------------------------------------------- claims on the shrink

ShrinkReturnedOk == ret.op = "shrink" /\ ret.val.ok

C7_ShrinkMonotone ==
  ShrinkReturnedOk =>
    /\ report(liveSize, FALSE) <= ret.rep0
    /\ (ret.rep0 <= ret.min => ret.pops = 0)

\* C8: shrink(0) on a store holding N entries makes at most N pops.
C8_ShrinkTermination ==
  /\ (pc # "idle" /\ minArg = 0) => pops <= n0
  /\ (ret.op = "shrink" /\ ret.min = 0) => ret.pops <= ret.n0

\* C17: in shrink a pop that returns empty ends the loop and is no failure,
\* a pop that errors ends the call with failure, and the flush comes after
\* the loop: every Ok return follows a successful flush and a failed flush
\* makes shrink return failure.
C17_ShrinkErrorPaths ==
  /\ []((ret.op = "shrink" /\ ret.val.ok) => ret.flushed)
  /\ [][/\ (pc = "pop_delete" /\ item = None) => (pc' = "flush" /\ ret' = ret)
        /\ (pc = "pop_delete" /\ pc' = "idle" /\ ret'.val # Panic) =>
             (ret'.val = Err(<<>>) /\ ~ret'.flushed /\ engineVars' = engineVars)
        /\ (pc = "flush" /\ pc' = "idle" /\ ~ret'.flushed) => ret'.val = Err(<<>>)
        /\ pc' = "idle" => (ret'.op = "shrink" => (ret'.flushed => pc = "flush"))]_vars

\* a shrink whose loop an empty pop ended returned Ok
C17_Witness ==
  /\ ShrinkReturnedOk
  /\ ret.flushed
  /\ ret.val.val > ret.min
  /\ ret.n0 = 0
  /\ ret.pops = 0

\* C18: the size shrink returns on success is the size measured once at its
\* start minus the sum of the byte counts its pops returned; it is not
\* measured again.
C18_ShrinkIncremental ==
  ShrinkReturnedOk => ret.val.val = ret.sz0 - ret.popped

\* the returned size is not what the live files measure after the shrink
C18_Witness ==
  /\ ShrinkReturnedOk
  /\ ret.pops >= 1
  /\ ret.val.val = ret.sz0 - ret.popped
  /\ ret.val.val # report(liveSize, FALSE)

\* C21: in shrink the running size never underflows: at every subtraction
\* the byte count pop returned is <= the current sz, so sz stays a valid
\* u64 that was never wrapped and the returned size is <= the size measured
\* at the start.
C21_NoUnderflow ==
  /\ sz >= 0
  /\ ret.op = "shrink" =>
       /\ ret.val # Panic
       /\ ret.val.ok => (ret.val.val >= 0 /\ ret.val.val <= ret.sz0)

Certs == 1..MaxCert
Chains == UNION {[1..n -> 0..MaxCert] : n \in 0..MaxChain}
Payloads_TLS == [certificate : Chains, private_key : 0..MaxCert]

\* gs.config.enforce_secure_tls
enforce_secure_tls == TRUE

\* an acceptor that is built whatever the payload holds
acceptor_unchecked(cert, secure_tls) ==
  Ok([leaf |-> IF Len(cert.certificate) > 0 THEN Some(cert.certificate[1]) ELSE None,
      key |-> cert.private_key,
      min_proto |-> IF secure_tls THEN "TLS1_2" ELSE "TLS1"])

\* HttpServerLifecycle::cert_payload_to_acceptor
cert_payload_to_acceptor(cert, secure_tls) ==
  LET full_chain == cert.certificate
  IN IF \E i \in 1..Len(full_chain) : full_chain[i] = 0
       THEN Err("ssl")                       \* X509::stack_from_pem
     ELSE IF cert.private_key = 0
       THEN Err("ssl")                       \* Rsa::private_key_from_pem
     ELSE IF Len(full_chain) > 0 /\ full_chain[1] # cert.private_key
       THEN Err("ssl")                       \* builder.set_private_key
     ELSE Ok([leaf |-> IF Len(full_chain) > 0 THEN Some(full_chain[1]) ELSE None,
              key |-> cert.private_key,
              min_proto |-> IF secure_tls THEN "TLS1_2" ELSE "TLS1"])

\* a server holds the listening socket until it has stopped
HoldsSocket(srv) == srv.state # "stopped"

Listening(srvs) == {i \in DOMAIN srvs : HoldsSocket(srvs[i])}

FreeIds(srvs) == (1..MaxServers) \ DOMAIN srvs

\* a spawn whose bind succeeds on an address that is taken
spawn_on_taken_address(srvs, held, acceptor) ==
  LET id == CHOOSE i \in FreeIds(srvs) : \A j \in FreeIds(srvs) : i <= j
  IN [result |-> Ok(TRUE),
      servers |-> [i \in DOMAIN srvs \cup {id} |->
                     IF i = id
                       THEN [state |-> "running", leaf |-> acceptor.leaf,
                             conns |-> 0, graceful |-> FALSE]
                       ELSE srvs[i]],
      id |-> id]

\* a spawn that configures the new listener as the one before it was
spawn_with_prior_acceptor(srvs, held, acceptor) ==
  IF held \/ Listening(srvs) # {}
    THEN [result |-> Err("Port"), servers |-> srvs, id |-> 0]
    ELSE LET id == CHOOSE i \in FreeIds(srvs) : \A j \in FreeIds(srvs) : i <= j
         IN [result |-> Ok(TRUE),
             servers |-> [i \in DOMAIN srvs \cup {id} |->
                            IF i = id
                              THEN [state |-> "running",
                                    leaf |-> IF DOMAIN srvs = {} THEN acceptor.leaf
                                             ELSE srvs[CHOOSE j \in DOMAIN srvs : TRUE].leaf,
                                    conns |-> 0, graceful |-> FALSE]
                              ELSE srvs[i]],
             id |-> id]

\* spawn_http_server: bind_openssl(&bind_addr, acceptor), then run()
spawn_http_server(srvs, held, acceptor) ==
  IF held \/ Listening(srvs) # {}
    THEN [result |-> Err("Port"), servers |-> srvs, id |-> 0]
    ELSE LET id == CHOOSE i \in FreeIds(srvs) : \A j \in FreeIds(srvs) : i <= j
         IN [result |-> Ok(TRUE),
             servers |-> [i \in DOMAIN srvs \cup {id} |->
                            IF i = id
                              THEN [state |-> "running", leaf |-> acceptor.leaf,
                                    conns |-> 0, graceful |-> FALSE]
                              ELSE srvs[i]],
             id |-> id]

\* a stop that waits again on a server that has already stopped
stop_waits_on_stopped(srvs, id, graceful) ==
  IF srvs[id].state \in {"running", "stopped"}
    THEN [srvs EXCEPT ![id].state = "stopping", ![id].graceful = graceful]
    ELSE srvs

\* a stop that is always graceful
stop_graceful(srvs, id, graceful) ==
  IF srvs[id].state = "running"
    THEN [srvs EXCEPT ![id].state = "stopping", ![id].graceful = TRUE]
    ELSE srvs

\* dev::Server::stop(graceful): the command reaches a running server only
stop(srvs, id, graceful) ==
  IF srvs[id].state = "running"
    THEN [srvs EXCEPT ![id].state = "stopping", ![id].graceful = graceful]
    ELSE srvs

\* a stop that is not awaited
stop_not_awaited(srv) == TRUE

\* the future of stop(graceful) resolves once the server has stopped
stop_resolved(srv) == srv.state = "stopped"

\* a handle that is dropped: a server that has stopped is gone with it
DropHandle(srvs, id) ==
  IF id \in DOMAIN srvs /\ srvs[id].state = "stopped"
    THEN [i \in DOMAIN srvs \ {id} |-> srvs[i]]
    ELSE srvs

\* HttpServerLifecycle::new; a manager built while one exists takes its place
New(cert) ==
  /\ UNCHANGED otherThanHttp
  /\ hpc = "idle"
  /\ FreeIds(servers) # {}
  /\ LET acceptor == cert_payload_to_acceptor(cert, enforce_secure_tls)
     IN IF ~acceptor.ok
          THEN /\ hret' = [op |-> "new", cert |-> cert, val |-> Err("Acceptor"),
                            \* whether bind_openssl was called, and whether
                            \* the address was taken at that moment
                            bind |-> FALSE,
                            busy |-> foreign \/ Listening(servers) # {}]
               /\ UNCHANGED <<lc, actix, servers>>
          ELSE LET srv == spawn_http_server(servers, foreign, acceptor.val)
               IN IF ~srv.result.ok
                    THEN /\ hret' = [op |-> "new", cert |-> cert, val |-> Err("Port"),
                                      bind |-> TRUE,
                                      busy |-> foreign \/ Listening(servers) # {}]
                         /\ UNCHANGED <<lc, actix, servers>>
                    ELSE /\ hret' = [op |-> "new", cert |-> cert, val |-> Ok(TRUE),
                                      bind |-> TRUE,
                                      busy |-> foreign \/ Listening(servers) # {}]
                         /\ lc' = TRUE
                         /\ actix' = srv.id
                         /\ servers' = IF lc THEN DropHandle(srv.servers, actix)
                                             ELSE srv.servers
  /\ UNCHANGED <<foreign, hpc, hcall>>

\* respawn_with_new_cert: self.shutdown(false) is called
RespawnCall(cert) ==
  /\ UNCHANGED otherThanHttp
  /\ lc
  /\ hpc = "idle"
  /\ servers' = stop(servers, actix, FALSE)
  /\ hpc' = "stop_wait"
  /\ hcall' = [op |-> "rotate", cert |-> cert,
               wasRunning |-> servers[actix].state = "running",
               \* the leaf the listener held at the call presents
               prior |-> servers[actix].leaf,
               \* the call before this one was a rotate that failed
               retry |-> hret.op = "rotate" /\ ~hret.val.ok]
  /\ UNCHANGED <<lc, actix, foreign, hret>>

\* respawn_with_new_cert: the await returns and the acceptor is built
RespawnAcceptor ==
  /\ UNCHANGED otherThanHttp
  /\ hpc = "stop_wait"
  /\ hcall.op = "rotate"
  /\ stop_resolved(servers[actix])
  /\ LET acceptor == cert_payload_to_acceptor(hcall.cert, enforce_secure_tls)
     IN IF ~acceptor.ok
          THEN /\ hret' = [op |-> "rotate", cert |-> hcall.cert, val |-> Err("Acceptor"),
                            retry |-> hcall.retry]
               /\ hpc' = "idle"
               /\ hcall' = [op |-> "none"]
          ELSE /\ hpc' = "bind"
               /\ UNCHANGED <<hret, hcall>>
  /\ UNCHANGED <<lc, actix, servers, foreign>>

\* respawn_with_new_cert: spawn_http_server, then self.actix = srv
RespawnBind ==
  /\ UNCHANGED otherThanHttp
  /\ hpc = "bind"
  /\ FreeIds(servers) # {}
  /\ LET acceptor == cert_payload_to_acceptor(hcall.cert, enforce_secure_tls)
         srv == spawn_http_server(servers, foreign, acceptor.val)
     IN IF ~srv.result.ok
          THEN /\ hret' = [op |-> "rotate", cert |-> hcall.cert, val |-> Err("Port"),
                            retry |-> hcall.retry, busy |-> TRUE]
               /\ UNCHANGED <<actix, servers>>
          ELSE /\ hret' = [op |-> "rotate", cert |-> hcall.cert, val |-> Ok(TRUE),
                            prior |-> hcall.prior, retry |-> hcall.retry,
                            busy |-> FALSE]
               /\ actix' = srv.id
               /\ servers' = DropHandle(srv.servers, actix)
  /\ hpc' = "idle"
  /\ hcall' = [op |-> "none"]
  /\ UNCHANGED <<lc, foreign>>

\* HttpServerLifecycle::shutdown called from outside: stop(graceful) is sent
ShutdownCall(graceful) ==
  /\ UNCHANGED otherThanHttp
  /\ lc
  /\ hpc = "idle"
  /\ servers' = stop(servers, actix, graceful)
  /\ hpc' = "stop_wait"
  /\ hcall' = [op |-> "shutdown", graceful |-> graceful]
  /\ UNCHANGED <<lc, actix, foreign, hret>>

\* HttpServerLifecycle::shutdown: the await returns
ShutdownReturn ==
  /\ UNCHANGED otherThanHttp
  /\ hpc = "stop_wait"
  /\ hcall.op = "shutdown"
  /\ stop_resolved(servers[actix])
  /\ hret' = [op |-> "shutdown", graceful |-> hcall.graceful]
  /\ hpc' = "idle"
  /\ hcall' = [op |-> "none"]
  /\ UNCHANGED <<lc, actix, servers, foreign>>

\* a stopping server stops: at once when forced or idle, after
\* shutdown_timeout(60) when connections are still open
ServerStops(id, timedOut) ==
  /\ UNCHANGED otherThanHttp
  /\ servers[id].state = "stopping"
  /\ \/ ~servers[id].graceful
     \/ servers[id].conns = 0
     \/ timedOut
  /\ servers' = [servers EXCEPT ![id].state = "stopped", ![id].conns = 0]
  /\ UNCHANGED <<lc, actix, foreign, hpc, hcall, hret>>

\* a client opens a keep-alive connection to a running listener
Connect(id) ==
  /\ UNCHANGED otherThanHttp
  /\ servers[id].state = "running"
  /\ IsSome(servers[id].leaf)
  /\ servers[id].conns < MaxConns
  /\ servers' = [servers EXCEPT ![id].conns = @ + 1]
  /\ UNCHANGED <<lc, actix, foreign, hpc, hcall, hret>>

\* a connection ends
Disconnect(id) ==
  /\ UNCHANGED otherThanHttp
  /\ servers[id].conns > 0
  /\ servers' = [servers EXCEPT ![id].conns = @ - 1]
  /\ UNCHANGED <<lc, actix, foreign, hpc, hcall, hret>>

\* another process binds the address while no listener of the node holds it
ForeignBind ==
  /\ UNCHANGED otherThanHttp
  /\ ~foreign
  /\ Listening(servers) = {}
  /\ foreign' = TRUE
  /\ UNCHANGED <<lc, actix, servers, hpc, hcall, hret>>

ForeignRelease ==
  /\ UNCHANGED otherThanHttp
  /\ foreign
  /\ foreign' = FALSE
  /\ UNCHANGED <<lc, actix, servers, hpc, hcall, hret>>

NextHttp ==
  \/ \E cert \in Payloads_TLS : New(cert)
  \/ \E cert \in Payloads_TLS : RespawnCall(cert)
  \/ RespawnAcceptor
  \/ RespawnBind
  \/ \E graceful \in BOOLEAN : ShutdownCall(graceful)
  \/ ShutdownReturn
  \/ \E id \in DOMAIN servers, timedOut \in BOOLEAN : ServerStops(id, timedOut)
  \/ \E id \in DOMAIN servers : Connect(id)
  \/ \E id \in DOMAIN servers : Disconnect(id)
  \/ ForeignBind
  \/ ForeignRelease

SpecHttp == Init /\ [][NextHttp]_vars

\* ------------------------------------------------- claims on the lifecycle

\* a payload the spec calls invalid: a block of the chain or the key does not
\* parse, or the key is not the key of the leaf certificate
InvalidCred(cert) ==
  \/ \E i \in 1..Len(cert.certificate) : cert.certificate[i] = 0
  \/ cert.private_key = 0
  \/ (Len(cert.certificate) > 0 /\ cert.certificate[1] # cert.private_key)

\* C9: in every rotate the old listener has fully stopped, and has released
\* the address, before the new acceptor is built and the bind is attempted.
C9_StopBeforeBind ==
  (hcall.op = "rotate" /\ hpc = "bind") =>
    /\ servers[actix].state = "stopped"
    /\ Listening(servers) = {}

C9_Witness ==
  /\ hcall.op = "rotate"
  /\ hpc = "bind"
  /\ hcall.wasRunning
  /\ servers[actix].state = "stopped"

ArchiveTypes == {"data", "data-saver", "datasaver"}

\* MdPathArgs.token: Option<String>
Tokens == {None, Some("token")}

\* what v.verify_url_token(token, &path.chap_hash) answers
Verdicts == {"ok", "rejected"}

\* a check that lets every archive type through
archive_type_unchecked(archive_type) == TRUE

\* !(path.archive_type != "data" && path.archive_type != "data-saver")
valid_archive_type(archive_type) ==
  ~(archive_type # "data" /\ archive_type # "data-saver")

\* a counter that is written instead of added to
store_relaxed(counter, n) == n

\* request_counter.fetch_add(n, Ordering::Relaxed): one atomic step
fetch_add(counter, n) == counter + n

\* the configuration is read before the server is spawned
LoadConfig(skip) ==
  /\ UNCHANGED otherThanReq
  /\ skip_tokens = None
  /\ skip_tokens' = Some(skip)
  /\ UNCHANGED <<verify_tokens, request_counter, rq>>

\* the backend turns token verification on or off
SetVerifyTokens(b) ==
  /\ UNCHANGED otherThanReq
  /\ verify_tokens # b
  /\ verify_tokens' = b
  /\ UNCHANGED <<skip_tokens, request_counter, rq>>

\* a request is routed to md_service
ReqArrive(r, archive_type, token) ==
  /\ UNCHANGED otherThanReq
  /\ IsSome(skip_tokens)
  /\ rq[r].pc = "free"
  /\ rq' = [rq EXCEPT ![r] = [NoRequest EXCEPT !.pc = "archive",
                                               !.archive_type = archive_type,
                                               !.token = token]]
  /\ UNCHANGED <<skip_tokens, verify_tokens, request_counter>>

\* md_service: stop early if archive type is not valid
ReqArchive(r) ==
  /\ UNCHANGED otherThanReq
  /\ rq[r].pc = "archive"
  /\ rq' = IF valid_archive_type(rq[r].archive_type)
             THEN [rq EXCEPT ![r].pc = "verify"]
             ELSE [rq EXCEPT ![r].pc = "done", ![r].resp = "NotFound"]
  /\ UNCHANGED <<skip_tokens, verify_tokens, request_counter>>

\* md_service: verify the token if verify tokens is enabled
ReqVerify(r, verdict) ==
  /\ UNCHANGED otherThanReq
  /\ rq[r].pc = "verify"
  /\ rq' =
       IF ~Unwrap(skip_tokens) /\ verify_tokens
         THEN IF rq[r].token = None
                THEN \* None => return Err(ErrorUnauthorized)
                     [rq EXCEPT ![r].pc = "done", ![r].resp = "Unauthorized",
                                ![r].verdict = "missing"]
              ELSE IF verdict = "ok"
                THEN \* Some(Ok(_)) => {}
                     [rq EXCEPT ![r].pc = "count", ![r].verdict = "ok",
                                ![r].seen = @ \cup {"verifier"}]
                ELSE \* Some(Err(e)) => return Err(e.into())
                     [rq EXCEPT ![r].pc = "done", ![r].resp = "TokenError",
                                ![r].verdict = "rejected",
                                ![r].seen = @ \cup {"verifier"}]
         ELSE [rq EXCEPT ![r].pc = "count", ![r].verdict = "disabled"]
  /\ UNCHANGED <<skip_tokens, verify_tokens, request_counter>>

\* md_service: increment request counter
ReqCount(r) ==
  /\ UNCHANGED otherThanReq
  /\ rq[r].pc = "count"
  /\ request_counter' = fetch_add(request_counter, 1)
  /\ rq' = [rq EXCEPT ![r].pc = "respond", ![r].seen = @ \cup {"counter"}]
  /\ UNCHANGED <<skip_tokens, verify_tokens>>

\* md_service: handler::response_from_cache(..).await
ReqRespond(r) ==
  /\ UNCHANGED otherThanReq
  /\ rq[r].pc = "respond"
  /\ rq' = [rq EXCEPT ![r].pc = "done", ![r].resp = "FromCache",
                      ![r].seen = @ \cup {"cache"}]
  /\ UNCHANGED <<skip_tokens, verify_tokens, request_counter>>

NextReq ==
  \/ \E skip \in BOOLEAN : LoadConfig(skip)
  \/ \E b \in BOOLEAN : SetVerifyTokens(b)
  \/ \E r \in Reqs, archive_type \in ArchiveTypes, token \in Tokens :
       ReqArrive(r, archive_type, token)
  \/ \E r \in Reqs : ReqArchive(r)
  \/ \E r \in Reqs, verdict \in Verdicts : ReqVerify(r, verdict)
  \/ \E r \in Reqs : ReqCount(r)
  \/ \E r \in Reqs : ReqRespond(r)

SpecReq == Init /\ [][NextReq]_vars

\* ------------------------------------------------- claims on the requests

\* C13: a request whose archive type is not exactly "data" or "data-saver"
\* is answered not-found, before the token is verified, before the request
\* counter is incremented and before the cache is consulted.
C13_ArchiveTypeFirst ==
  \A r \in Reqs :
    (rq[r].pc # "free" /\ rq[r].archive_type \notin {"data", "data-saver"}) =>
      /\ rq[r].pc \in {"archive", "done"}
      /\ rq[r].pc = "done" => rq[r].resp = "NotFound"
      /\ rq[r].seen = {}
      /\ rq[r].verdict = "none"

C13_Witness ==
  \E r \in Reqs :
    /\ rq[r].pc = "done"
    /\ rq[r].archive_type = "datasaver"
    /\ rq[r].resp = "NotFound"
    /\ request_counter = 0

\* the request passed archive-type validation and token verification, or
\* verification was disabled when it came to it, and it is past the increment
Counted(r) ==
  /\ rq[r].archive_type \in {"data", "data-saver"}
  /\ rq[r].verdict \in {"ok", "disabled"}
  /\ rq[r].pc \in {"respond", "done"}

\* C14: the request counter equals the number of requests that passed
\* archive-type validation and token verification (or had verification
\* disabled), whatever the interleaving; a request answered not-found or
\* unauthorized never incremented it, and no increment is lost.
C14_CounterCountsVerified ==
  /\ request_counter = Cardinality({r \in Reqs : Counted(r)})
  /\ \A r \in Reqs :
       rq[r].resp \in {"NotFound", "Unauthorized", "TokenError"} =>
         "counter" \notin rq[r].seen

C14_Witness ==
  /\ request_counter = 2
  /\ \E r \in Reqs : Counted(r) /\ rq[r].verdict = "ok"
  /\ \E r \in Reqs : Counted(r) /\ rq[r].verdict = "disabled"

\* the leaf certificate of a payload: the first certificate of its chain
LeafOf(cert) ==
  IF Len(cert.certificate) > 0 THEN Some(cert.certificate[1]) ELSE None

RotateReturnedOk == hret.op = "rotate" /\ hret.val.ok /\ hpc = "idle"

\* C11: after rotate(newCred) returned success, every listener that accepts
\* connections is configured with newCred's leaf certificate, and every new
\* connection is made to such a listener, never to one with the prior leaf.
C11_RotationCorrectness ==
  /\ [](RotateReturnedOk =>
          \A id \in DOMAIN servers :
            servers[id].state = "running" => servers[id].leaf = LeafOf(hret.cert))
  /\ [][RotateReturnedOk =>
          \A id \in DOMAIN servers \cap DOMAIN servers' :
            servers'[id].conns > servers[id].conns =>
              /\ servers[id].leaf = LeafOf(hret.cert)
              /\ id = actix]_vars

C11_Witness ==
  /\ RotateReturnedOk
  /\ IsSome(hret.prior)
  /\ hret.prior # LeafOf(hret.cert)
  /\ servers[actix].conns > 0
  /\ servers[actix].leaf = LeafOf(hret.cert)

\* C12: start(credential) fails with the credential error, and attempts no
\* bind, whenever the chain or the key is malformed (a chain that yields no
\* certificate included) or the key does not match the certificate; it fails
\* with the bind error when the credential is valid and the address cannot
\* be bound; otherwise it returns a running listener.
C12_StartErrors ==
  hret.op = "new" =>
    IF InvalidCred(hret.cert) \/ LeafOf(hret.cert) = None
      THEN hret.val = Err("Acceptor") /\ ~hret.bind
    ELSE IF hret.busy
      THEN hret.val = Err("Port")
    ELSE hret.val = Ok(TRUE) /\ lc /\ actix \in DOMAIN servers

\* C19: rotate stops the running listener with graceful = false and its stop
\* completes with keep-alive connections still open, without waiting for
\* them; a stop waits for open connections, and only up to the shutdown
\* timeout, only when it comes from shutdown(graceful = true).
C19_RotateStopsForcefully ==
  \A id \in DOMAIN servers :
    servers[id].state = "stopping" =>
      /\ id = actix
      /\ hpc = "stop_wait"
      /\ hcall.op = "rotate" =>
           /\ ~servers[id].graceful
           /\ ENABLED ServerStops(id, FALSE)
      /\ servers[id].graceful => (hcall.op = "shutdown" /\ hcall.graceful)
      /\ (servers[id].graceful /\ servers[id].conns > 0) =>
           /\ ~ENABLED ServerStops(id, FALSE)
           /\ ENABLED ServerStops(id, TRUE)

\* rotate waits on the stop of a listener that has a connection open
C19_Witness ==
  /\ hcall.op = "rotate"
  /\ hpc = "stop_wait"
  /\ servers[actix].state = "stopping"
  /\ servers[actix].conns > 0
  /\ ENABLED ServerStops(actix, FALSE)

\* C23: after any sequence of start, rotate and shutdown calls, successful
\* or failing, at most one listener is bound to the node's address, and
\* only the listener the lifecycle manager holds can be running.
C23_SingleListener ==
  /\ Cardinality(Listening(servers)) <= 1
  /\ \A id \in DOMAIN servers :
       HoldsSocket(servers[id]) => (lc /\ id = actix)

\* a second start failed on the address the first listener holds
C23_Witness ==
  /\ lc
  /\ servers[actix].state = "running"
  /\ hret.op = "new"
  /\ hret.val = Err("Port")
  /\ ~foreign
  /\ hpc = "idle"

\* C24: a failed rotate leaves the manager holding the old, stopped server;
\* a later rotate is not blocked by stopping it again, and with a valid
\* credential and a free address it succeeds and leaves a running listener
\* with that credential.
C24_RotateAfterFailure ==
  /\ (hret.op = "rotate" /\ ~hret.val.ok /\ hpc = "idle") =>
       /\ lc
       /\ actix \in DOMAIN servers
       /\ servers[actix].state = "stopped"
  /\ (hcall.op = "rotate" /\ hcall.retry /\ hpc = "stop_wait") =>
       /\ servers[actix].state = "stopped"
       /\ ENABLED RespawnAcceptor
  /\ (hret.op = "rotate" /\ hret.retry /\ hpc = "idle"
        /\ ~InvalidCred(hret.cert) /\ ~hret.busy) =>
       /\ hret.val = Ok(TRUE)
       /\ servers[actix].state = "running"
       /\ servers[actix].leaf = LeafOf(hret.cert)

C24_Witness ==
  /\ hret.op = "rotate"
  /\ hret.retry
  /\ hpc = "idle"
  /\ hret.val = Ok(TRUE)
  /\ servers[actix].state = "running"
  /\ servers[actix].leaf = LeafOf(hret.cert)
  /\ IsSome(servers[actix].leaf)

====
